---- MODULE Spec2Model ----
(***************************************************************************)
(* Retrieval-augmented question answering backend (myaigist): the QAAgent  *)
(* of agents/qa_agent.py, the vector store it persists at one path, and    *)
(* the endpoints of main.py that drive them.                               *)
(*                                                                         *)
(* A store is a pair of parallel sequences (vectors, metadata) plus a     *)
(* dimension.  Every worker holds its own QAAgent with an in-memory copy   *)
(* of the store; the file at the persistence path is the variable disk.   *)
(***************************************************************************)
EXTENDS Integers, Sequences, FiniteSets, TLC

\* ------------------------------------------------------------------ bounds
MaxDocs == 7          \* last document id minted in one behaviour
MaxFiles == 2         \* files in one multi-file upload (the endpoint allows 5)
MaxTextLen == 4       \* characters of a text handed to the chunker
MaxChunkSize == 3     \* chunk_size of a call of the chunker on such a text
MaxIters == 7         \* loop iterations followed in one call of the chunker

\* ------------------------------------------------------- program constants
max_docs_per_user == 5      \* _cleanup_user_documents(max_docs_per_user=5)
MinTextLen == 10            \* len(text.strip()) < 10
MinQuestionLen == 3         \* len(question.strip()) < 3
top_k == 3                  \* _get_relevant_context(top_k=3)
PrimaryThreshold == 100     \* min_similarity=0.1, in thousandths
RelaxedThreshold == 0       \* min_similarity=0.0, in thousandths

Users == {"u1", "u2"}
Workers == {1, 2}

\* --------------------------------------------------------- input documents
\* A text is named; the tables give what the code computes from it:
\* len(text.strip()), and the chunk list _chunk_text(_clean_text(text)).
Texts == {"tiny", "one", "two"}
Titles == [blank |-> "E.txt", tiny |-> "T.txt", one |-> "A.txt", two |-> "B.txt"]
StripLen == [blank |-> 0, tiny |-> 4, one |-> 30, two |-> 1500]
ChunksOf == [blank |-> <<"nil">>, tiny |-> <<"dot">>, one |-> <<"sky">>,
             two |-> <<"long", "sea">>]

\* the texts handed to add_document: those above and the empty text
AddTexts == Texts \cup {"blank"}

\* len(chunk) of each chunk: a text of at most 1000 characters is its own
\* chunk; the 1500 characters of "two" are cut into text[0:1000] and
\* text[800:1500].
ChunkLen == [nil |-> 0, dot |-> 4, sky |-> 30, long |-> 1000, sea |-> 700]

\* The embedding provider, as a table from chunk or question text to vector.
Embedding == [sky |-> <<1, 0>>, long |-> <<1, 0>>, sea |-> <<0, 1>>,
              dot |-> <<0, 1>>, nil |-> <<0, 0>>, anti |-> <<-1, 0>>,
              both |-> <<3, 4>>, void |-> <<0, 0>>]

\* A piece of text kept in a record: the first `chars` characters of a
\* chunk, followed by '...' when ellipsis holds.
PreviewLen == 100
FullText(chunk) == [of |-> chunk, chars |-> ChunkLen[chunk], ellipsis |-> FALSE]

\* chunk[:100] + '...' if len(chunk) > 100 else chunk
Preview(chunk) ==
  IF ChunkLen[chunk] > PreviewLen
  THEN [of |-> chunk, chars |-> PreviewLen, ellipsis |-> TRUE]
  ELSE FullText(chunk)

\* ------------------------------------------------------------------- state
VARIABLES
  disk,       \* the persisted store at the store path
  agent,      \* agent[w]: the QAAgent of worker w
  nextDoc,    \* source of fresh document ids (uuid4)
  clock,      \* datetime.now()
  last,       \* the last completed operation, its inputs and its outcome
  chunker     \* one call of _chunk_text: its arguments and its locals

vars == <<disk, agent, nextDoc, clock, last, chunker>>

EmptyStore == [vectors |-> <<>>, metadata |-> <<>>, dimension |-> 0]

\* QAAgent.__init__: no documents, a store object bound to the path.
NewAgent(u) ==
  [user_id |-> u, vectors |-> <<>>, metadata |-> <<>>, dimension |-> 0,
   documents |-> <<>>, pc |-> "idle", pending |-> 0]

StoreOf(ag) ==
  [vectors |-> ag.vectors, metadata |-> ag.metadata, dimension |-> ag.dimension]

\* VectorStore.load: the in-memory triple becomes the persisted one.
Load(ag, d) ==
  [ag EXCEPT !.vectors = d.vectors, !.metadata = d.metadata,
             !.dimension = d.dimension]

\* VectorStore.save: the whole file is overwritten by the in-memory triple.
Save(ag) == StoreOf(ag)

\* VectorStore.add_text: embed one text and append one record, which keeps
\* the caller's metadata and the full text that was embedded.
AddText(ag, chunk, md) ==
  [ag EXCEPT !.vectors = Append(@, Embedding[chunk]),
             !.metadata = Append(@, [md EXCEPT !.text = FullText(chunk)]),
             !.dimension = IF @ = 0 THEN Len(Embedding[chunk]) ELSE @]

\* ------------------------------------------------------------ list helpers
\* list.pop(i) with a 0-based index i
PopAt(s, i) == SubSeq(s, 1, i) \o SubSeq(s, i + 2, Len(s))

\* [i for i, metadata in enumerate(metadata) if metadata.get('doc_id') == doc_id]
RECURSIVE IndicesOf(_, _, _)
IndicesOf(md, doc_id, i) ==
  IF i >= Len(md) THEN <<>>
  ELSE (IF md[i + 1].doc_id = doc_id THEN <<i>> ELSE <<>>)
       \o IndicesOf(md, doc_id, i + 1)

\* the positions (1-based) of the records that carry doc_id
Carried(st, doc_id) ==
  {i \in 1..Len(st.metadata) : st.metadata[i].doc_id = doc_id}

Reversed(s) == [k \in 1..Len(s) |-> s[Len(s) + 1 - k]]

\* for i in order: if i < len(vectors): vectors.pop(i); metadata.pop(i)
RECURSIVE PopAll(_, _, _)
PopAll(vs, md, order) ==
  IF order = <<>> THEN [vectors |-> vs, metadata |-> md]
  ELSE LET i == Head(order)
       IN IF i < Len(vs)
          THEN PopAll(PopAt(vs, i), PopAt(md, i), Tail(order))
          ELSE PopAll(vs, md, Tail(order))

RECURSIVE FilterDocs(_, _)
FilterDocs(docs, doc_id) ==
  IF docs = <<>> THEN <<>>
  ELSE (IF Head(docs).doc_id # doc_id THEN <<Head(docs)>> ELSE <<>>)
       \o FilterDocs(Tail(docs), doc_id)

\* the removal with the dimension unset once no vector is left
RemoveDocumentById_ResetDimension(ag, doc_id) ==
  LET indices_to_remove == IndicesOf(ag.metadata, doc_id, 0)
      r == PopAll(ag.vectors, ag.metadata, Reversed(indices_to_remove))
  IN [ag EXCEPT !.vectors = r.vectors, !.metadata = r.metadata,
                !.dimension = IF r.vectors = <<>> THEN 0 ELSE @,
                !.documents = FilterDocs(@, doc_id)]

\* the removal with the indices popped in ascending order
RemoveDocumentById_Forward(ag, doc_id) ==
  LET indices_to_remove == IndicesOf(ag.metadata, doc_id, 0)
      r == PopAll(ag.vectors, ag.metadata, indices_to_remove)
  IN [ag EXCEPT !.vectors = r.vectors, !.metadata = r.metadata,
                !.documents = FilterDocs(@, doc_id)]

\* QAAgent._remove_document_by_id
RemoveDocumentById(ag, doc_id) ==
  LET indices_to_remove == IndicesOf(ag.metadata, doc_id, 0)
      r == PopAll(ag.vectors, ag.metadata, Reversed(indices_to_remove))
  IN [ag EXCEPT !.vectors = r.vectors, !.metadata = r.metadata,
                !.documents = FilterDocs(@, doc_id)]

\* doc_times collected without the user_id test
RECURSIVE DocTimes_AllUsers(_, _, _)
DocTimes_AllUsers(md, u, seen) ==
  IF md = <<>> THEN <<>>
  ELSE LET m == Head(md)
       IN IF m.doc_id \notin seen
          THEN <<[doc_id |-> m.doc_id, upload_time |-> m.upload_time]>>
               \o DocTimes_AllUsers(Tail(md), u, seen \cup {m.doc_id})
          ELSE DocTimes_AllUsers(Tail(md), u, seen)

\* doc_times: the user's document ids in order of first occurrence, each with
\* the upload_time of its first record (a dict keeps insertion order)
RECURSIVE DocTimes(_, _, _)
DocTimes(md, u, seen) ==
  IF md = <<>> THEN <<>>
  ELSE LET m == Head(md)
       IN IF m.user_id = u /\ m.doc_id \notin seen
          THEN <<[doc_id |-> m.doc_id, upload_time |-> m.upload_time]>>
               \o DocTimes(Tail(md), u, seen \cup {m.doc_id})
          ELSE DocTimes(Tail(md), u, seen)

\* sorted(..., key=lambda x: x[1]): stable, ascending by upload_time
RECURSIVE InsertByTime(_, _)
InsertByTime(sorted, x) ==
  IF sorted = <<>> THEN <<x>>
  ELSE IF Head(sorted).upload_time <= x.upload_time
       THEN <<Head(sorted)>> \o InsertByTime(Tail(sorted), x)
       ELSE <<x>> \o sorted

RECURSIVE SortedByTime(_)
SortedByTime(s) ==
  IF s = <<>> THEN <<>>
  ELSE InsertByTime(SortedByTime(SubSeq(s, 1, Len(s) - 1)), s[Len(s)])

RECURSIVE RemoveEach(_, _)
RemoveEach(ag, docs) ==
  IF docs = <<>> THEN ag
  ELSE RemoveEach(RemoveDocumentById(ag, Head(docs).doc_id), Tail(docs))

\* the cleanup with the newest documents taken from the sorted list
CleanupUserDocuments_Newest(ag) ==
  IF ag.user_id = "" THEN ag
  ELSE LET doc_times == DocTimes(ag.metadata, ag.user_id, {})
       IN IF Len(doc_times) >= max_docs_per_user
          THEN LET sorted_docs == SortedByTime(doc_times)
                   docs_to_remove ==
                     SubSeq(sorted_docs, max_docs_per_user, Len(sorted_docs))
               IN RemoveEach(ag, docs_to_remove)
          ELSE ag

\* QAAgent._cleanup_user_documents
CleanupUserDocuments(ag) ==
  IF ag.user_id = "" THEN ag
  ELSE LET doc_times == DocTimes(ag.metadata, ag.user_id, {})
       IN IF Len(doc_times) >= max_docs_per_user
          THEN LET sorted_docs == SortedByTime(doc_times)
                   docs_to_remove ==
                     SubSeq(sorted_docs, 1, Len(sorted_docs) - max_docs_per_user + 1)
               IN RemoveEach(ag, docs_to_remove)
          ELSE ag

\* QAAgent._count_user_documents, for any owner u
DocIdsOf(md, u) == {md[i].doc_id : i \in {j \in 1..Len(md) : md[j].user_id = u}}
CountUserDocuments(md, u) == Cardinality(DocIdsOf(md, u))

\* ------------------------------------------------------------ add_document
\* The metadata dict built for a chunk; it has no 'id' key (NoId).
NoId == -1
Metadata(u, doc_id, chunk_index, title, upload_time, chunk) ==
  [id |-> NoId, user_id |-> u, doc_id |-> doc_id, chunk_index |-> chunk_index,
   title |-> title, upload_time |-> upload_time, text |-> Preview(chunk)]

\* the loop with chunk_index counted from 1
RECURSIVE AddChunks_IndexFromOne(_, _, _, _, _, _, _)
AddChunks_IndexFromOne(ag, chunks, k, doc_id, title, t, failAt) ==
  IF k > Len(chunks) \/ k = failAt THEN ag
  ELSE AddChunks_IndexFromOne(
         AddText(ag, chunks[k],
                 Metadata(ag.user_id, doc_id, k, title, t, chunks[k])),
         chunks, k + 1, doc_id, title, t, failAt)

\* for chunk_index, chunk in enumerate(chunks): add_text(chunk, metadata);
\* the embedding of chunk number failAt (1-based) fails and add_text raises.
RECURSIVE AddChunks(_, _, _, _, _, _, _)
AddChunks(ag, chunks, k, doc_id, title, t, failAt) ==
  IF k > Len(chunks) \/ k = failAt THEN ag
  ELSE AddChunks(AddText(ag, chunks[k],
                         Metadata(ag.user_id, doc_id, k - 1, title, t,
                                  chunks[k])),
                 chunks, k + 1, doc_id, title, t, failAt)

\* the ingestion with the store saved before the chunks are appended
AddDocumentValid_SaveBeforeAppend(ag, d, text, title, doc_id, t, failAt) ==
       LET a1 == IF ag.vectors = <<>> THEN Load(ag, d) ELSE ag
           a2 == CleanupUserDocuments(a1)
           chunks == ChunksOf[text]
       IN IF chunks = <<>>
          THEN [agent |-> a2, disk |-> d, ok |-> FALSE, why |-> "nochunks",
                loaded |-> StoreOf(a1), minted |-> FALSE]
          ELSE LET document == [doc_id |-> doc_id, user_id |-> ag.user_id,
                                text |-> text, title |-> title]
                   a3 == [a2 EXCEPT !.documents = Append(@, document)]
                   a4 == AddChunks(a3, chunks, 1, doc_id, title, t, failAt)
               IN IF failAt \in 1..Len(chunks)
                  THEN [agent |-> a4, disk |-> Save(a3), ok |-> FALSE,
                        why |-> "embed", loaded |-> StoreOf(a1), minted |-> TRUE]
                  ELSE [agent |-> a4, disk |-> Save(a3), ok |-> TRUE,
                        why |-> "", loaded |-> StoreOf(a1), minted |-> TRUE]

\* QAAgent.add_document past its length test: load, cleanup, chunk, append,
\* save
AddDocumentValid(ag, d, text, title, doc_id, t, failAt) ==
       LET a1 == IF ag.vectors = <<>> THEN Load(ag, d) ELSE ag
           a2 == CleanupUserDocuments(a1)
           chunks == ChunksOf[text]
       IN IF chunks = <<>>
          THEN [agent |-> a2, disk |-> d, ok |-> FALSE, why |-> "nochunks",
                loaded |-> StoreOf(a1), minted |-> FALSE]
          ELSE LET document == [doc_id |-> doc_id, user_id |-> ag.user_id,
                                text |-> text, title |-> title]
                   a3 == [a2 EXCEPT !.documents = Append(@, document)]
                   a4 == AddChunks(a3, chunks, 1, doc_id, title, t, failAt)
               IN IF failAt \in 1..Len(chunks)
                  THEN [agent |-> a4, disk |-> d, ok |-> FALSE, why |-> "embed",
                        loaded |-> StoreOf(a1), minted |-> TRUE]
                  ELSE [agent |-> a4, disk |-> Save(a4), ok |-> TRUE,
                        why |-> "", loaded |-> StoreOf(a1), minted |-> TRUE]

\* add_document without the test of the text's length
AddDocument_NoLengthCheck(ag, d, text, title, doc_id, t, failAt) ==
  AddDocumentValid(ag, d, text, title, doc_id, t, failAt)

\* QAAgent.add_document.  Result: the agent and the file afterwards, the
\* returned bool, and the store as it was once the existing data was loaded.
\* (not text or len(text.strip()) < 10: the empty text has length 0.)
AddDocument(ag, d, text, title, doc_id, t, failAt) ==
  IF StripLen[text] < MinTextLen
  THEN [agent |-> ag, disk |-> d, ok |-> FALSE, why |-> "short",
        loaded |-> StoreOf(ag), minted |-> FALSE]
  ELSE AddDocumentValid(ag, d, text, title, doc_id, t, failAt)

\* ------------------------------------------------- delete_document endpoint
\* sum(1 for m in metadata if m.user_id == user_id and m.doc_id == doc_id)
ChunkCount(md, u, doc_id) ==
  Cardinality({i \in 1..Len(md) : md[i].user_id = u /\ md[i].doc_id = doc_id})

NoCount == -1     \* the response carries no chunks_removed field

\* the endpoint with the records of any owner counted
DeleteDocument_AnyOwner(u, d, doc_id) ==
  IF doc_id = 0
  THEN [agent |-> NewAgent(u), disk |-> d, status |-> 400,
        chunks_removed |-> NoCount, loaded |-> EmptyStore]
  ELSE LET a0 == NewAgent(u)
           a1 == IF a0.vectors = <<>> THEN Load(a0, d) ELSE a0
           chunk_count == Cardinality(Carried(StoreOf(a1), doc_id))
       IN IF chunk_count = 0
          THEN [agent |-> a1, disk |-> d, status |-> 404,
                chunks_removed |-> NoCount, loaded |-> StoreOf(a1)]
          ELSE LET a2 == RemoveDocumentById(a1, doc_id)
               IN [agent |-> a2, disk |-> Save(a2), status |-> 200,
                   chunks_removed |-> chunk_count, loaded |-> StoreOf(a1)]

\* the endpoint without the ownership and existence test
DeleteDocument_NoCheck(u, d, doc_id) ==
  LET a0 == NewAgent(u)
      a1 == IF a0.vectors = <<>> THEN Load(a0, d) ELSE a0
      a2 == RemoveDocumentById(a1, doc_id)
  IN [agent |-> a2, disk |-> Save(a2), status |-> 200,
      chunks_removed |-> ChunkCount(a1.metadata, u, doc_id),
      loaded |-> StoreOf(a1)]

\* main.delete_document; doc_id 0 stands for a request without doc_id
DeleteDocument(u, d, doc_id) ==
  IF doc_id = 0
  THEN [agent |-> NewAgent(u), disk |-> d, status |-> 400,
        chunks_removed |-> NoCount, loaded |-> EmptyStore]
  ELSE LET a0 == NewAgent(u)
           a1 == IF a0.vectors = <<>> THEN Load(a0, d) ELSE a0
           chunk_count == ChunkCount(a1.metadata, u, doc_id)
       IN IF chunk_count = 0
          THEN [agent |-> a1, disk |-> d, status |-> 404,
                chunks_removed |-> NoCount, loaded |-> StoreOf(a1)]
          ELSE LET a2 == RemoveDocumentById(a1, doc_id)
               IN [agent |-> a2, disk |-> Save(a2), status |-> 200,
                   chunks_removed |-> chunk_count, loaded |-> StoreOf(a1)]

\* ------------------------------------------------------------ clear_documents
\* VectorStore.clear: both arrays emptied, dimension unset
Clear(ag) == [ag EXCEPT !.vectors = <<>>, !.metadata = <<>>, !.dimension = 0]

\* QAAgent.clear_documents
ClearDocuments(ag) ==
  LET a1 == Clear([ag EXCEPT !.documents = <<>>])
  IN [agent |-> a1, disk |-> Save(a1)]

\* ---------------------------------------------- upload_multiple_files endpoint
\* Phase 1: the files whose extracted text passes len(text.strip()) >= 10
ValidFiles(files) == SelectSeq(files, LAMBDA f : StripLen[f] >= MinTextLen)

\* Phase 3, first loop: one document per valid file; document k of the batch
\* gets id doc0 + k - 1 and upload time t0 + k.  Result: the agent with the
\* documents appended, all_chunks and chunk_metadata.
RECURSIVE CollectChunks(_, _, _, _, _, _, _)
CollectChunks(ag, files, k, doc0, t0, all_chunks, chunk_metadata) ==
  IF k > Len(files)
  THEN [agent |-> ag, all_chunks |-> all_chunks,
        chunk_metadata |-> chunk_metadata,
        qa_stored |-> [f \in 1..Len(files) |-> ChunksOf[files[f]] # <<>>]]
  ELSE LET text == files[k]
           chunks == ChunksOf[text]
           doc_id == doc0 + k - 1
           document == [doc_id |-> doc_id, user_id |-> ag.user_id,
                        text |-> text, title |-> Titles[text]]
           mds == [c \in 1..Len(chunks) |->
                     Metadata(ag.user_id, doc_id, c - 1, Titles[text], t0 + k,
                              chunks[c])]
       IN CollectChunks([ag EXCEPT !.documents = Append(@, document)],
                        files, k + 1, doc0, t0, all_chunks \o chunks,
                        chunk_metadata \o mds)

\* {'id': vector_id, 'text': all_chunks[i], **metadata}: a key of metadata
\* replaces the same key given before it, so 'text' is metadata['text'];
\* metadata has no 'id', so 'id' is vector_id, the number n of f"vec_{n}".
MetadataWithId(vector_id, chunk, metadata) ==
  [[metadata EXCEPT !.id = vector_id, !.text = FullText(chunk)]
     EXCEPT !.text = metadata.text]

\* the second loop with the metadata appended for a null embedding as well
RECURSIVE AppendBatch_MetadataAlways(_, _, _, _, _)
AppendBatch_MetadataAlways(ag, all_chunks, chunk_metadata, nulls, i) ==
  IF i > Len(all_chunks) THEN ag
  ELSE AppendBatch_MetadataAlways(
         [ag EXCEPT !.vectors = IF i \in nulls THEN @
                                ELSE Append(@, Embedding[all_chunks[i]]),
                    !.metadata = Append(@, MetadataWithId(Len(ag.vectors),
                                                          all_chunks[i],
                                                          chunk_metadata[i]))],
         all_chunks, chunk_metadata, nulls, i + 1)

\* Phase 3, second loop: for (embedding, metadata) in zip(...): if embedding:
\* append.  nulls is the set of positions whose embedding came back empty.
RECURSIVE AppendBatch(_, _, _, _, _)
AppendBatch(ag, all_chunks, chunk_metadata, nulls, i) ==
  IF i > Len(all_chunks) THEN ag
  ELSE AppendBatch(
         IF i \in nulls THEN ag
         ELSE [ag EXCEPT !.vectors = Append(@, Embedding[all_chunks[i]]),
                         !.metadata = Append(@, MetadataWithId(Len(ag.vectors),
                                                               all_chunks[i],
                                                               chunk_metadata[i]))],
         all_chunks, chunk_metadata, nulls, i + 1)

\* main.upload_multiple_files.  The response lists qa_stored per valid file
\* and successful_uploads; it has no field counting failed embeddings.
UploadMultipleFiles(u, d, files, doc0, t0, nulls) ==
  LET a0 == NewAgent(u)
      valid_files == ValidFiles(files)
  IN IF valid_files = <<>>
     THEN [agent |-> a0, disk |-> d, success |-> FALSE,
           successful_uploads |-> 0, minted |-> 0, loaded |-> EmptyStore,
           qa_stored |-> <<>>, failed |-> NoCount]
     ELSE LET a1 == IF a0.vectors = <<>> THEN Load(a0, d) ELSE a0
              a2 == CleanupUserDocuments(a1)
              c == CollectChunks(a2, valid_files, 1, doc0, t0, <<>>, <<>>)
              a3 == AppendBatch(c.agent, c.all_chunks, c.chunk_metadata,
                                nulls, 1)
              stored == {i \in 1..Len(c.all_chunks) : i \notin nulls}
              first == CHOOSE i \in stored : \A j \in stored : i <= j
              a4 == [a3 EXCEPT !.dimension =
                       IF @ = 0 /\ stored # {}
                       THEN Len(Embedding[c.all_chunks[first]]) ELSE @]
          IN [agent |-> a4,
              disk |-> IF c.all_chunks # <<>> THEN Save(a4) ELSE d,
              success |-> Len(valid_files) > 0,
              successful_uploads |-> Len(valid_files),
              minted |-> Len(valid_files), loaded |-> StoreOf(a1),
              qa_stored |-> c.qa_stored, failed |-> NoCount]

\* ------------------------------------------------------------- questions
\* A question is named; the tables give the value passed as `question`: a
\* string (its characters), or a JSON value that is not a string.
Questions == {"empty", "short", "number", "sky", "anti", "void", "both"}
QIsString == [empty |-> TRUE, short |-> TRUE, number |-> FALSE, sky |-> TRUE,
              anti |-> TRUE, void |-> TRUE, both |-> TRUE]
QChars == [empty |-> <<>>,
           short |-> <<" ", "h", "i", " ", " ">>,
           number |-> <<>>,
           sky |-> <<"s", "k", "y", "?">>,
           anti |-> <<" ", "a", "n", "t", "i">>,
           void |-> <<"v", "o", "i", "d">>,
           both |-> <<"b", "o", "t", "h">>]
QText == [empty |-> "void", short |-> "void", number |-> "void", sky |-> "sky",
          anti |-> "anti", void |-> "void", both |-> "both"]

\* str.strip()
RECURSIVE LStrip(_)
LStrip(s) == IF s # <<>> /\ Head(s) = " " THEN LStrip(Tail(s)) ELSE s
RECURSIVE RStrip(_)
RStrip(s) ==
  IF s # <<>> /\ s[Len(s)] = " " THEN RStrip(SubSeq(s, 1, Len(s) - 1)) ELSE s
Strip(s) == RStrip(LStrip(s))

\* ------------------------------------------------------- similarity search
Dot(a, b) == a[1] * b[1] + a[2] * b[2]
Norm(a) == CHOOSE n \in 0..8 : n * n = Dot(a, a)

\* cosine similarity in thousandths; 0 for a zero-norm vector
Cosine(a, b) ==
  IF Norm(a) * Norm(b) = 0 THEN 0
  ELSE (1000 * Dot(a, b)) \div (Norm(a) * Norm(b))

\* the insertion that puts a hit before the hits of equal score
RECURSIVE InsertByScore_LaterFirst(_, _)
InsertByScore_LaterFirst(ranked, x) ==
  IF ranked = <<>> THEN <<x>>
  ELSE IF Head(ranked).similarity > x.similarity
       THEN <<Head(ranked)>> \o InsertByScore_LaterFirst(Tail(ranked), x)
       ELSE <<x>> \o ranked

\* insert a hit into a list ordered by descending score; among equal scores
\* the hit inserted earlier stays first
RECURSIVE InsertByScore(_, _)
InsertByScore(ranked, x) ==
  IF ranked = <<>> THEN <<x>>
  ELSE IF Head(ranked).similarity >= x.similarity
       THEN <<Head(ranked)>> \o InsertByScore(Tail(ranked), x)
       ELSE <<x>> \o ranked

RECURSIVE Rank(_, _, _, _, _)
Rank(st, qvec, min_similarity, user_id, i) ==
  IF i = 0 THEN <<>>
  ELSE LET rest == Rank(st, qvec, min_similarity, user_id, i - 1)
           score == Cosine(st.vectors[i], qvec)
       IN IF st.metadata[i].user_id = user_id /\ score >= min_similarity
          THEN InsertByScore(rest, [similarity |-> score, index |-> i,
                                    metadata |-> st.metadata[i]])
          ELSE rest

\* VectorStore.similarity_search(query, top_k, min_similarity, user_id)
SimilaritySearch(st, query, k, min_similarity, user_id) ==
  CHOOSE results \in
    {SubSeq(ranked, 1, IF Len(ranked) < k THEN Len(ranked) ELSE k) :
       ranked \in {Rank(st, Embedding[query], min_similarity, user_id,
                        Len(st.vectors))}} : TRUE

\* ---------------------------------------------------------- answer_question
\* latest_doc['text'][:2000] of the most recently added document, or ""
FallbackContext(ag) ==
  IF ag.documents # <<>>
  THEN [kind |-> "fallback", hits |-> <<>>, chunks |-> <<>>,
        text |-> ag.documents[Len(ag.documents)].text]
  ELSE [kind |-> "empty", hits |-> <<>>, chunks |-> <<>>, text |-> ""]

\* relevant_chunks: f"[From: {metadata['title']}]\n{metadata['text']}" for
\* each search result, in order
RelevantChunks(search_results) ==
  [i \in 1..Len(search_results) |->
     [title |-> search_results[i].metadata.title,
      chunk_text |-> search_results[i].metadata.text]]

\* one call of vector_store.similarity_search made by the agent: its
\* arguments and what came back
SearchCall(ag, q, min_similarity, raised, results) ==
  [query |-> QText[q], top_k |-> top_k, min_similarity |-> min_similarity,
   user_id |-> ag.user_id, raised |-> raised, results |-> results]

\* similarity_search as the agent calls it: top_k and the agent's user_id
Find(ag, q, emb, min_similarity) ==
  IF emb = "none" THEN <<>>
  ELSE SimilaritySearch(StoreOf(ag), QText[q], top_k, min_similarity,
                        ag.user_id)

\* the context built from the results of the searches that were made
ContextOf(ag, search_results, searches) ==
  IF search_results = <<>>
  THEN [context |-> FallbackContext(ag), searches |-> searches]
  ELSE [context |-> [kind |-> "chunks", hits |-> search_results,
                     chunks |-> RelevantChunks(search_results),
                     text |-> ""],
        searches |-> searches]

\* the context built with the search at 0.0 issued whatever the first gave
GetRelevantContext_AlwaysRetry(ag, q, emb) ==
  IF ag.vectors = <<>>
  THEN [context |-> FallbackContext(ag), searches |-> <<>>]
  ELSE IF emb = "raise"
  THEN [context |-> FallbackContext(ag),
        searches |-> <<SearchCall(ag, q, PrimaryThreshold, TRUE, <<>>)>>]
  ELSE CHOOSE r \in UNION {
         {ContextOf(ag, second,
                    <<SearchCall(ag, q, PrimaryThreshold, FALSE, first),
                      SearchCall(ag, q, RelaxedThreshold, FALSE, second)>>) :
            second \in {Find(ag, q, emb, RelaxedThreshold)}} :
         first \in {Find(ag, q, emb, PrimaryThreshold)}} : TRUE

\* QAAgent._get_relevant_context.  emb is what the embedding provider does
\* with the query: "ok", or "raise" (the search raises), or "none" (the
\* search returns no result).  searches lists the calls of similarity_search
\* in the order they were made; first and second are their results.
GetRelevantContext(ag, q, emb) ==
  IF ag.vectors = <<>>
  THEN [context |-> FallbackContext(ag), searches |-> <<>>]
  ELSE IF emb = "raise"
  THEN [context |-> FallbackContext(ag),
        searches |-> <<SearchCall(ag, q, PrimaryThreshold, TRUE, <<>>)>>]
  ELSE CHOOSE r \in UNION {
         IF first # <<>>
         THEN {ContextOf(ag, first,
                         <<SearchCall(ag, q, PrimaryThreshold, FALSE, first)>>)}
         ELSE {ContextOf(ag, second,
                         <<SearchCall(ag, q, PrimaryThreshold, FALSE, first),
                           SearchCall(ag, q, RelaxedThreshold, FALSE, second)>>) :
                 second \in {Find(ag, q, emb, RelaxedThreshold)}} :
         first \in {Find(ag, q, emb, PrimaryThreshold)}} : TRUE

\* QAAgent._generate_answer: the provider's failure is caught and returned
GenerateAnswer(gen) ==
  IF gen = "ok" THEN [raised |-> FALSE, kind |-> "answer"]
  ELSE [raised |-> FALSE, kind |-> "Error generating answer"]

NoContext == [kind |-> "empty", hits |-> <<>>, chunks |-> <<>>, text |-> ""]

\* What answer_question returns: one of its fixed messages, or the text
\* _generate_answer returned (kind), followed by the lines the agent appends
\* to it (appended); answer_question returns that text as it is.
Reply(kind) ==
  [raised |-> FALSE, kind |-> kind, appended |-> <<>>, context |-> NoContext,
   searches |-> <<>>, genCalls |-> 0]

\* the end of the try block: the fixed message when the context is empty,
\* else the text _generate_answer returns, with nothing appended
AnswerFrom(c, gen) ==
  IF c.context.kind = "empty"
  THEN [Reply("I couldn't find relevant information")
          EXCEPT !.searches = c.searches]
  ELSE [raised |-> GenerateAnswer(gen).raised, kind |-> GenerateAnswer(gen).kind,
        appended |-> <<>>, context |-> c.context, searches |-> c.searches,
        genCalls |-> 1]

\* the try block without the test for an empty store
AnswerQuestionBody_NoEmptyCheck(ag, q, emb, gen) ==
  IF QIsString[q] /\ QChars[q] = <<>>
  THEN Reply("Please provide a valid question")
  ELSE IF ~QIsString[q]
  THEN [Reply("AttributeError") EXCEPT !.raised = TRUE]
  ELSE IF Len(Strip(QChars[q])) < MinQuestionLen
  THEN Reply("Please provide a valid question")
  ELSE CHOOSE r \in {AnswerFrom(c, gen) :
                        c \in {GetRelevantContext(ag, q, emb)}} : TRUE

\* the try block of QAAgent.answer_question
AnswerQuestionBody(ag, q, emb, gen) ==
  IF QIsString[q] /\ QChars[q] = <<>>
  THEN Reply("Please provide a valid question")
  ELSE IF ~QIsString[q]
  THEN [Reply("AttributeError") EXCEPT !.raised = TRUE]
  ELSE IF Len(Strip(QChars[q])) < MinQuestionLen
  THEN Reply("Please provide a valid question")
  ELSE IF ag.vectors = <<>>
  THEN Reply("No documents have been uploaded yet")
  ELSE CHOOSE r \in {AnswerFrom(c, gen) :
                        c \in {GetRelevantContext(ag, q, emb)}} : TRUE

\* answer_question without its except clause
AnswerQuestion_NoCatch(ag, q, emb, gen) == AnswerQuestionBody(ag, q, emb, gen)

\* QAAgent.answer_question: whatever the try block raises is returned as text
AnswerQuestion(ag, q, emb, gen) ==
  CHOOSE answer \in
    {IF r.raised
     THEN [r EXCEPT !.raised = FALSE, !.kind = "Error answering question"]
     ELSE r : r \in {AnswerQuestionBody(ag, q, emb, gen)}} : TRUE

\* ------------------------------------------------------ ask_question endpoint
\* ready_for_questions of the branch without a user: total_vectors > 0
ReadyForQuestions_AnyOwner(ag) == Len(ag.vectors) > 0

\* sum(1 for meta in metadata if meta.get('user_id') == user_id) > 0
ReadyForQuestions(ag) ==
  \E i \in 1..Len(ag.metadata) : ag.metadata[i].user_id = ag.user_id

\* main.ask_question: a fresh session agent; the store is reloaded when the
\* agent reports no chunks of the user; 400 when there are still none.
\* answer is Reply("") when answer_question was not called.
AskQuestion(u, d, q, emb, gen) ==
  LET a0 == NewAgent(u)
  IN IF QIsString[q] /\ QChars[q] = <<>>
     THEN [agent |-> a0, status |-> 400, error |-> "No question provided",
           answer |-> Reply("")]
     ELSE IF ~QIsString[q]
     THEN [agent |-> a0, status |-> 500, error |-> "TypeError",
           answer |-> Reply("")]
     ELSE LET a1 == IF ReadyForQuestions(a0) THEN a0 ELSE Load(a0, d)
          IN IF ~ReadyForQuestions(a1)
             THEN [agent |-> a1, status |-> 400,
                   error |-> "No documents available", answer |-> Reply("")]
             ELSE [agent |-> a1, status |-> 200, error |-> "",
                   answer |-> AnswerQuestion(a1, q, emb, gen)]

\* ------------------------------------------------------------- the chunker
\* A text is given by its length and by the positions (0-based) of its
\* sentence-terminal characters ('.', '!', '?') and of its whitespace
\* characters; every other position holds some other character.  A chunk is
\* a slice text[from:to] of the text.
DefaultChunkSize == 1000    \* chunk_size: int = 1000
DefaultOverlap == 200       \* overlap: int = 200
SentenceLookback == 100     \* range(min(100, chunk_size))

Positions(T) == 0..(T.len - 1)
NonBlank(T) == Positions(T) \ T.blanks

\* _clean_text: re.sub(r'\s+', ' ', text).strip().  Of each run of whitespace
\* one character stays, unless the run starts or ends the text.
Kept(T) ==
  {p \in Positions(T) :
     \/ p \notin T.blanks
     \/ (p - 1) \in NonBlank(T) /\ \E q \in NonBlank(T) : q > p}
CleanText(T) ==
  LET Idx(p) == Cardinality({q \in Kept(T) : q < p})
  IN [len |-> Cardinality(Kept(T)),
      ends |-> {Idx(p) : p \in T.ends},
      blanks |-> {Idx(p) : p \in T.blanks \cap Kept(T)}]

\* text[k]: a negative index counts from the end; IndexError out of range
InRange(T, k) == -T.len <= k /\ k < T.len
PyPos(T, k) == IF k < 0 THEN k + T.len ELSE k

\* text[a:b]: negative bounds count from the end, then both are clipped
Clip(T, k) ==
  LET p == IF k < 0 THEN k + T.len ELSE k
  IN IF p < 0 THEN 0 ELSE IF p > T.len THEN T.len ELSE p
Slice(T, a, b) ==
  IF Clip(T, a) < Clip(T, b) THEN [from |-> Clip(T, a), to |-> Clip(T, b)]
  ELSE [from |-> 0, to |-> 0]

\* str.strip() of a slice
RECURSIVE LStripSlice(_, _)
LStripSlice(T, c) ==
  IF c.from < c.to /\ c.from \in T.blanks
  THEN LStripSlice(T, [c EXCEPT !.from = @ + 1]) ELSE c
RECURSIVE RStripSlice(_, _)
RStripSlice(T, c) ==
  IF c.from < c.to /\ (c.to - 1) \in T.blanks
  THEN RStripSlice(T, [c EXCEPT !.to = @ - 1]) ELSE c
StripSlice(T, c) ==
  LET r == RStripSlice(T, LStripSlice(T, c))
  IN IF r.from < r.to THEN r ELSE [from |-> 0, to |-> 0]

\* the lookback that covers the whole window
LookbackWindow_Whole(chunk_size) == chunk_size

\* min(100, chunk_size)
LookbackWindow(chunk_size) ==
  IF SentenceLookback < chunk_size THEN SentenceLookback ELSE chunk_size

\* the first lines with a short text stripped, and dropped when empty
ChunkEnter_Stripped(T, chunk_size) ==
  IF T.len <= chunk_size
  THEN LET c == StripSlice(T, [from |-> 0, to |-> T.len])
       IN [pc |-> "done", start |-> 0,
           chunks |-> IF c.from < c.to THEN <<c>> ELSE <<>>]
  ELSE [pc |-> "loop", start |-> 0, chunks |-> <<>>]

\* _chunk_text up to its loop: if len(text) <= chunk_size: return [text]
ChunkEnter(T, chunk_size) ==
  IF T.len <= chunk_size
  THEN [pc |-> "done", start |-> 0, chunks |-> <<[from |-> 0, to |-> T.len]>>]
  ELSE [pc |-> "loop", start |-> 0, chunks |-> <<>>]

\* for i in range(window): if text[end - i - 1] in '.!?': end = end - i; break
\* Result: the end after the scan, or -1 when text[end - i - 1] raises.
IndexError == -1
NoBreak == -1

\* the first i in lo..hi at which the for loop stops (text[end - i - 1]
\* raises or is sentence-terminal), found by halving the range
StopsAt(T, end, i) ==
  \/ ~InRange(T, end - i - 1)
  \/ PyPos(T, end - i - 1) \in T.ends
RECURSIVE FirstStop(_, _, _, _)
FirstStop(T, end, lo, hi) ==
  IF \A i \in lo..hi : ~StopsAt(T, end, i) THEN NoBreak
  ELSE IF lo = hi THEN lo
  ELSE IF \E i \in lo..((lo + hi) \div 2) : StopsAt(T, end, i)
  THEN FirstStop(T, end, lo, (lo + hi) \div 2)
  ELSE FirstStop(T, end, (lo + hi) \div 2 + 1, hi)

SentenceEnd(T, end, i, window) ==
  LET stop == FirstStop(T, end, i, window - 1)
  IN IF stop = NoBreak THEN end
     ELSE IF ~InRange(T, end - stop - 1) THEN IndexError
     ELSE end - stop

\* the rest of an iteration with the next start one character too far
ChunkCut_Gap(T, overlap, start, end, chunks) ==
  IF end = IndexError
  THEN [pc |-> "raised", start |-> start, end |-> end, chunks |-> chunks]
  ELSE [pc |-> IF end - overlap + 1 >= T.len THEN "done" ELSE "loop",
        start |-> end - overlap + 1, end |-> end,
        chunks |-> chunks \o SelectSeq(<<StripSlice(T, Slice(T, start, end))>>,
                                       LAMBDA c : c.from < c.to)]

\* the rest of an iteration: the chunk, the next start, the loop's exit
ChunkCut(T, overlap, start, end, chunks) ==
  IF end = IndexError
  THEN [pc |-> "raised", start |-> start, end |-> end, chunks |-> chunks]
  ELSE [pc |-> IF end - overlap >= T.len THEN "done" ELSE "loop",
        start |-> end - overlap, end |-> end,
        chunks |-> chunks \o SelectSeq(<<StripSlice(T, Slice(T, start, end))>>,
                                       LAMBDA c : c.from < c.to)]

\* one iteration of the while loop of _chunk_text, entered with start < len
ChunkIterate(T, chunk_size, overlap, start, chunks) ==
  CHOOSE r \in
    {ChunkCut(T, overlap, start, end, chunks) :
       end \in {IF start + chunk_size < T.len
                THEN SentenceEnd(T, start + chunk_size, 0,
                                 LookbackWindow(chunk_size))
                ELSE start + chunk_size}} : TRUE

NoText == [len |-> 0, ends |-> {}, blanks |-> {}]
NoCall ==
  [pc |-> "idle", raw |-> NoText, clean |-> FALSE, text |-> NoText,
   chunk_size |-> 0, overlap |-> 0, start |-> 0, end |-> 0, chunks |-> <<>>,
   iters |-> 0]

\* ------------------------------------------------------------ the machine
NoOp ==
  [op |-> "none", worker |-> 0, user |-> "", ok |-> FALSE, why |-> "",
   doc_id |-> 0, pre |-> EmptyStore, preDisk |-> EmptyStore,
   status |-> 0, chunks_removed |-> 0, minted |-> 0, again |-> FALSE,
   removed |-> 0, text |-> "", files |-> <<>>, nulls |-> {},
   qa_stored |-> <<>>, failed |-> 0,
   question |-> "", emb |-> "", gen |-> "", answer |-> Reply("")]

\* A store file left by earlier requests: five successful add_document calls,
\* with document ids 1..5 uploaded at times 1..5.
RECURSIVE Prefill(_, _, _)
Prefill(d, plan, k) ==
  IF k > Len(plan) THEN d
  ELSE Prefill(AddDocument(NewAgent(plan[k][1]), d, plan[k][2],
                           Titles[plan[k][2]], k, k, 0).disk, plan, k + 1)

PrefillPlan ==
  <<<<"u1", "two">>, <<"u1", "one">>, <<"u2", "one">>, <<"u1", "one">>,
    <<"u1", "one">>>>

Init ==
  /\ \E n \in {0, Len(PrefillPlan)} :
       /\ disk = Prefill(EmptyStore, SubSeq(PrefillPlan, 1, n), 1)
       /\ nextDoc = Len(PrefillPlan) + 1
       /\ clock = Len(PrefillPlan)
  /\ agent = [w \in Workers |-> NewAgent("u1")]
  /\ last = NoOp
  /\ chunker = NoCall

\* get_session_qa_agent: a request builds its own QAAgent
NewRequest(w, u) ==
  /\ agent[w].pc = "idle"
  /\ agent' = [agent EXCEPT ![w] = NewAgent(u)]
  /\ last' = [NoOp EXCEPT !.op = "new", !.worker = w, !.user = u]
  /\ UNCHANGED <<disk, nextDoc, clock, chunker>>

\* session_qa.add_document(text, title), run to completion
AddDocumentAct(w, text, failAt) ==
  /\ agent[w].pc = "idle"
  /\ nextDoc <= MaxDocs
  /\ failAt <= Len(ChunksOf[text])
  /\ LET t == clock + 1
         r == AddDocument(agent[w], disk, text, Titles[text], nextDoc, t, failAt)
     IN /\ agent' = [agent EXCEPT ![w] = r.agent]
        /\ disk' = r.disk
        /\ nextDoc' = IF r.minted THEN nextDoc + 1 ELSE nextDoc
        /\ clock' = IF r.minted THEN t ELSE clock
        /\ last' = [NoOp EXCEPT !.op = "add_document", !.worker = w,
                      !.user = agent[w].user_id, !.ok = r.ok, !.why = r.why,
                      !.doc_id = nextDoc, !.pre = r.loaded, !.preDisk = disk,
                      !.minted = IF r.minted THEN 1 ELSE 0, !.text = text]
  /\ UNCHANGED chunker

\* agent._remove_document_by_id(doc_id), called on the agent's store
RemoveDocumentByIdAct(w, doc_id) ==
  /\ agent[w].pc = "idle"
  /\ agent' = [agent EXCEPT ![w] = RemoveDocumentById(@, doc_id)]
  /\ last' = [NoOp EXCEPT !.op = "remove", !.worker = w,
                !.user = agent[w].user_id, !.ok = TRUE, !.doc_id = doc_id,
                !.pre = StoreOf(agent[w]), !.preDisk = disk,
                !.again = /\ last.op = "remove" /\ last.doc_id = doc_id
                          /\ last.removed > 0,
                !.removed = Len(agent[w].metadata)
                            - Len(RemoveDocumentById(agent[w], doc_id).metadata)]
  /\ UNCHANGED <<disk, nextDoc, clock, chunker>>

\* DELETE /api/delete-document, sent by the user of worker w's session
DeleteDocumentAct(w, doc_id) ==
  /\ agent[w].pc = "idle"
  /\ LET u == agent[w].user_id
         r == DeleteDocument(u, disk, doc_id)
     IN /\ agent' = [agent EXCEPT ![w] = r.agent]
        /\ disk' = r.disk
        /\ last' = [NoOp EXCEPT !.op = "delete", !.worker = w,
                      !.user = agent[w].user_id,
                      !.ok = (r.status = 200), !.doc_id = doc_id,
                      !.pre = r.loaded, !.preDisk = disk,
                      !.status = r.status,
                      !.chunks_removed = r.chunks_removed]
  /\ UNCHANGED <<nextDoc, clock, chunker>>

\* session_qa.clear_documents()
ClearDocumentsAct(w) ==
  /\ agent[w].pc = "idle"
  /\ LET r == ClearDocuments(agent[w])
     IN /\ agent' = [agent EXCEPT ![w] = r.agent]
        /\ disk' = r.disk
        /\ last' = [NoOp EXCEPT !.op = "clear", !.worker = w,
                      !.user = agent[w].user_id, !.ok = TRUE,
                      !.pre = StoreOf(agent[w]), !.preDisk = disk]
  /\ UNCHANGED <<nextDoc, clock, chunker>>

\* main.cleanup_old_sessions, run by a worker process as it starts and by
\* POST /api/cleanup-sessions: the store file matches data/vector_store_*.pkl and is removed when its age exceeds
\* max_age_hours (file_age_over); loading a missing file gives an empty store.
CleanupOldSessions(d, file_age_over) == IF file_age_over THEN EmptyStore ELSE d

CleanupOldSessionsAct(file_age_over) ==
  /\ \A w \in Workers : agent[w].pc = "idle"
  /\ disk' = CleanupOldSessions(disk, file_age_over)
  /\ last' = [NoOp EXCEPT !.op = "cleanup_old_sessions", !.ok = TRUE,
                !.preDisk = disk]
  /\ UNCHANGED <<agent, nextDoc, clock, chunker>>

\* POST /api/upload-multiple-files, sent by the user of worker w's session
UploadMultipleFilesAct(w, files, nulls) ==
  /\ agent[w].pc = "idle"
  /\ nextDoc + Len(files) - 1 <= MaxDocs
  /\ LET u == agent[w].user_id
         r == UploadMultipleFiles(u, disk, files, nextDoc, clock, nulls)
     IN /\ agent' = [agent EXCEPT ![w] = r.agent]
        /\ disk' = r.disk
        /\ nextDoc' = nextDoc + r.minted
        /\ clock' = clock + r.minted
        /\ last' = [NoOp EXCEPT !.op = "upload", !.worker = w,
                      !.user = agent[w].user_id,
                      !.ok = r.success, !.doc_id = nextDoc,
                      !.pre = r.loaded, !.preDisk = disk,
                      !.minted = r.minted, !.files = files, !.nulls = nulls,
                      !.qa_stored = r.qa_stored, !.failed = r.failed]
  /\ UNCHANGED chunker

\* session_qa.answer_question(question)
AnswerQuestionAct(w, q, emb, gen) ==
  /\ agent[w].pc = "idle"
  /\ last' = [NoOp EXCEPT !.op = "answer", !.worker = w,
                !.user = agent[w].user_id, !.ok = TRUE,
                !.pre = StoreOf(agent[w]), !.preDisk = disk,
                !.question = q, !.emb = emb, !.gen = gen,
                !.answer = AnswerQuestion(agent[w], q, emb, gen)]
  /\ UNCHANGED <<disk, agent, nextDoc, clock, chunker>>

\* POST /api/ask-question, sent by the user of worker w's session
AskQuestionAct(w, q, emb, gen) ==
  /\ agent[w].pc = "idle"
  /\ \E u \in {agent[w].user_id} :
     \E r \in {AskQuestion(u, disk, q, emb, gen)} :
        /\ agent' = [agent EXCEPT ![w] = r.agent]
        /\ last' = [NoOp EXCEPT !.op = "ask", !.worker = w, !.user = u,
                      !.ok = (r.status = 200), !.status = r.status,
                      !.why = r.error,
                      !.pre = StoreOf(r.agent), !.preDisk = disk,
                      !.question = q, !.emb = emb, !.gen = gen,
                      !.answer = r.answer]
  /\ UNCHANGED <<disk, nextDoc, clock, chunker>>

FileLists == UNION {[1..n -> Texts] : n \in 1..MaxFiles}
TotalChunks(files) ==
  LET v == ValidFiles(files)
      RECURSIVE Sum(_)
      Sum(k) == IF k = 0 THEN 0 ELSE Len(ChunksOf[v[k]]) + Sum(k - 1)
  IN Sum(Len(v))

\* Outcomes of one create_embeddings_batch call over n texts: every item
\* embedded, the first item failed, or every item failed.
NullSets(n) == {{}, {1} \cap (1..n), 1..n}

\* The doc_id values sent to the delete endpoint: none (0), the oldest
\* document of u1, the document of u2, the first new document, and an id
\* that no document ever gets.
DeleteRequests == {0, 1, 3, Len(PrefillPlan) + 1, MaxDocs + 1}

Next ==
  \/ \E u \in Users : NewRequest(1, u)
  \/ \E text \in AddTexts, failAt \in 0..2 : AddDocumentAct(1, text, failAt)
  \/ \E doc_id \in DeleteRequests : DeleteDocumentAct(1, doc_id)
  \/ ClearDocumentsAct(1)
  \/ \E files \in FileLists :
       \E nulls \in NullSets(TotalChunks(files)) :
         UploadMultipleFilesAct(1, files, nulls)

Spec == Init /\ [][Next]_vars

\* The removal routine on its own: agents that ingest and remove by id.
NextRemove ==
  \/ \E u \in Users : NewRequest(1, u)
  \/ \E text \in AddTexts, failAt \in 0..2 : AddDocumentAct(1, text, failAt)
  \/ \E doc_id \in DeleteRequests \ {0} : RemoveDocumentByIdAct(1, doc_id)

SpecRemove == Init /\ [][NextRemove]_vars

\* Question answering: agents that ingest, clear and answer.
NextQA ==
  \/ \E u \in Users : NewRequest(1, u)
  \/ \E text \in AddTexts, failAt \in 0..2 : AddDocumentAct(1, text, failAt)
  \/ ClearDocumentsAct(1)
  \/ \E q \in Questions, emb \in {"ok", "raise", "none"}, gen \in {"ok", "fail"} :
       AnswerQuestionAct(1, q, emb, gen)

SpecQA == Init /\ [][NextQA]_vars

\* Ingestion by either path followed by questions through the endpoint,
\* with the cleanup of session files run in between.
NextContext ==
  \/ \E u \in Users : NewRequest(1, u)
  \/ \E text \in Texts : AddDocumentAct(1, text, 0)
  \/ \E files \in FileLists : UploadMultipleFilesAct(1, files, {})
  \/ \E q \in Questions : AskQuestionAct(1, q, "ok", "ok")
  \/ \E file_age_over \in BOOLEAN : CleanupOldSessionsAct(file_age_over)

SpecContext == Init /\ [][NextContext]_vars

\* The chunker on its own.  A call is _chunk_text(text, chunk_size, overlap)
\* or, when clean holds, _chunk_text(_clean_text(text), chunk_size, overlap).
Call(raw, clean, chunk_size, overlap) ==
  [NoCall EXCEPT !.pc = "call", !.raw = raw, !.clean = clean,
                 !.chunk_size = chunk_size, !.overlap = overlap]

ChunkEnterAct ==
  /\ chunker.pc = "call"
  /\ \E T \in {IF chunker.clean THEN CleanText(chunker.raw) ELSE chunker.raw} :
       \E r \in {ChunkEnter(T, chunker.chunk_size)} :
         chunker' = [chunker EXCEPT !.text = T, !.pc = r.pc, !.start = r.start,
                                    !.chunks = r.chunks]
  /\ UNCHANGED <<disk, agent, nextDoc, clock, last>>

ChunkIterateAct ==
  /\ chunker.pc = "loop"
  /\ chunker.iters < MaxIters
  /\ \E r \in {ChunkIterate(chunker.text, chunker.chunk_size, chunker.overlap,
                              chunker.start, chunker.chunks)} :
       chunker' = [chunker EXCEPT !.pc = r.pc, !.start = r.start,
                                  !.end = r.end, !.chunks = r.chunks,
                                  !.iters = @ + 1]
  /\ UNCHANGED <<disk, agent, nextDoc, clock, last>>

NextChunk ==
  \/ ChunkEnterAct
  \/ ChunkIterateAct

InitStore ==
  /\ disk = EmptyStore
  /\ nextDoc = 1
  /\ clock = 0
  /\ agent = [w \in Workers |-> NewAgent("u1")]
  /\ last = NoOp

\* every text of at most MaxTextLen characters, every chunk_size up to
\* MaxChunkSize and every overlap below it
SmallTexts ==
  UNION {UNION {{[len |-> n, ends |-> e, blanks |-> b] :
                   b \in SUBSET (0..(n - 1) \ e)} :
                e \in SUBSET (0..(n - 1))} :
         n \in 0..MaxTextLen}

InitChunk ==
  /\ InitStore
  /\ \E raw \in SmallTexts, clean \in BOOLEAN, chunk_size \in 1..MaxChunkSize :
       \E overlap \in 0..(chunk_size - 1) :
         chunker = Call(raw, clean, chunk_size, overlap)

SpecChunk == InitChunk /\ [][NextChunk]_vars

\* The chunker with its default parameters, on texts of the lengths below
\* whose sentence-terminal and whitespace characters are at some of the
\* positions below.
DefaultLens == {0, 1000, 1001, 1500, 1702, 2500}
TerminalPositions == {0, 899, 900, 999, 1601}
BlankPositions == {1000, 1602}
DefaultTexts ==
  {[len |-> n, ends |-> {p \in e : p < n}, blanks |-> {p \in b : p < n}] :
     n \in DefaultLens, e \in SUBSET TerminalPositions,
     b \in SUBSET BlankPositions}

InitChunkDefault ==
  /\ InitStore
  /\ \E raw \in DefaultTexts :
       chunker = Call(raw, FALSE, DefaultChunkSize, DefaultOverlap)

SpecChunkDefault ==
  InitChunkDefault /\ [][NextChunk]_vars /\ WF_vars(NextChunk)

\* The chunker on texts longer than chunk_size, with chunk sizes above the
\* lookback and overlaps below chunk_size - 100: no overlap, an overlap of
\* the lookback's length, and the largest overlap in that range.  The texts
\* have their sentence-terminal and whitespace characters at some of the
\* positions that decide the first cuts: the far edge of the first lookback
\* (chunk_size - 100), the position just outside it, the last position of the
\* first window, and positions of the second window.
CoverSizes == {101, 300}
CoverOverlaps(chunk_size) ==
  {overlap \in {0, SentenceLookback, chunk_size - SentenceLookback - 1} :
     overlap < chunk_size - SentenceLookback}
CoverTexts(chunk_size) ==
  {[len |-> n, ends |-> {p \in e : p < n}, blanks |-> {p \in b : p < n}] :
     n \in {chunk_size + 1, chunk_size + 60, chunk_size + 200},
     e \in SUBSET {chunk_size - 101, chunk_size - 100, chunk_size - 1,
                   chunk_size + 50},
     b \in SUBSET {chunk_size - 99, chunk_size, chunk_size + 1}}

InitChunkCover ==
  /\ InitStore
  /\ \E chunk_size \in CoverSizes :
       \E overlap \in CoverOverlaps(chunk_size), raw \in CoverTexts(chunk_size) :
         chunker = Call(raw, FALSE, chunk_size, overlap)

SpecChunkCover == InitChunkCover /\ [][NextChunk]_vars

\* Two workers serving add_document requests on the same store path.  A
\* request reads the file when it loads and writes it when it saves; the
\* workers are separate processes, so these two file accesses of one request
\* interleave with those of the other.
BeginAddDocument(w, u, text) ==
  /\ agent[w].pc \in {"idle", "done"}
  /\ nextDoc <= MaxDocs
  /\ LET r == AddDocument(NewAgent(u), disk, text, Titles[text], nextDoc,
                          clock + 1, 0)
     IN /\ agent' = [agent EXCEPT ![w] =
                       IF r.ok
                       THEN [r.agent EXCEPT !.pc = "saving", !.pending = nextDoc]
                       ELSE r.agent]
        /\ nextDoc' = IF r.minted THEN nextDoc + 1 ELSE nextDoc
        /\ clock' = IF r.minted THEN clock + 1 ELSE clock
        /\ last' = [NoOp EXCEPT !.op = "begin_add", !.worker = w, !.user = u,
                      !.ok = r.ok, !.why = r.why, !.doc_id = nextDoc,
                      !.pre = r.loaded, !.preDisk = disk]
  /\ UNCHANGED <<disk, chunker>>

FinishAddDocument(w) ==
  /\ agent[w].pc = "saving"
  /\ disk' = Save(agent[w])
  /\ agent' = [agent EXCEPT ![w].pc = "done"]
  /\ last' = [NoOp EXCEPT !.op = "add_document", !.worker = w,
                !.user = agent[w].user_id, !.ok = TRUE,
                !.doc_id = agent[w].pending, !.preDisk = disk]
  /\ UNCHANGED <<nextDoc, clock, chunker>>

NextConc ==
  \/ \E w \in Workers, u \in Users, text \in Texts : BeginAddDocument(w, u, text)
  \/ \E w \in Workers : FinishAddDocument(w)

SpecConc == Init /\ [][NextConc]_vars

\* ---------------------------------------------------------------- claims
Mem == StoreOf(agent[1])

\* C1: when two requests ingest a document into the same store path and
\* both report success, the persisted store holds the records of both.
C1_BothSaved ==
  \A a, b \in Workers :
    (a # b /\ agent[a].pc = "done" /\ agent[b].pc = "done")
    => /\ \E i \in 1..Len(disk.metadata) :
            disk.metadata[i].doc_id = agent[a].pending
       /\ \E i \in 1..Len(disk.metadata) :
            disk.metadata[i].doc_id = agent[b].pending
Ingested == last.op \in {"add_document", "upload"} /\ last.why # "short"

\* the records (vector and metadata, by position) that satisfy Keep
Records(st) == [i \in 1..Len(st.metadata) |->
                  [vector |-> st.vectors[i], metadata |-> st.metadata[i]]]
OthersRecords(st, u) ==
  SelectSeq(Records(st), LAMBDA r : r.metadata.user_id # u)
WithoutDoc(st, doc_id) ==
  SelectSeq(Records(st), LAMBDA r : r.metadata.doc_id # doc_id)
UploadTimeOf(st, doc_id) ==
  st.metadata[CHOOSE i \in Carried(st, doc_id) : TRUE].upload_time

\* C2: whenever an ingestion operation (add_document or the multi-file
\* upload) has completed, every owner has at most 5 distinct document ids
\* in the store's metadata.
C2_CapAfterIngestion ==
  Ingested =>
    \A u \in Users : CountUserDocuments(Mem.metadata, u) <= max_docs_per_user

\* C3: when an owner with exactly 5 documents adds one more with
\* add_document, exactly one of the owner's documents is evicted, it is the
\* one with the smallest upload_time, and none of its records remains.
C3_EvictsOldestOnly ==
  (/\ last.op = "add_document" /\ last.why # "short"
   /\ CountUserDocuments(last.pre.metadata, last.user) = max_docs_per_user)
  => LET before == DocIdsOf(last.pre.metadata, last.user)
         after == DocIdsOf(Mem.metadata, last.user)
         evicted == before \ after
     IN /\ Cardinality(evicted) = 1
        /\ \A v \in evicted :
             /\ \A b \in before :
                  UploadTimeOf(last.pre, v) <= UploadTimeOf(last.pre, b)
             /\ Carried(Mem, v) = {}
        /\ Len(Mem.vectors) = Len(Mem.metadata)

C3_Witness ==
  /\ last.op = "add_document" /\ last.ok
  /\ CountUserDocuments(last.pre.metadata, last.user) = max_docs_per_user
  /\ Cardinality(Carried(last.pre, 1)) = 2
  /\ Carried(Mem, 1) = {}

\* C4: the eviction run by owner A's ingestion leaves the records of every
\* other owner as they were: same records, same content, same relative order.
C4_EvictionSparesOthers ==
  Ingested => OthersRecords(Mem, last.user) = OthersRecords(last.pre, last.user)

C4_Witness ==
  /\ Ingested
  /\ DocIdsOf(last.pre.metadata, last.user) \ DocIdsOf(Mem.metadata, last.user) # {}
  /\ OthersRecords(last.pre, last.user) # <<>>

\* C5: removing a document by id removes exactly the records whose doc_id
\* equals the id, keeps every other record's content and order in both
\* arrays, and removing the same id again removes nothing.
C5_RemoveExactlyDoc ==
  last.op = "remove" =>
    /\ Records(Mem) = WithoutDoc(last.pre, last.doc_id)
    /\ Len(Mem.vectors) = Len(Mem.metadata)
    /\ last.removed = Cardinality(Carried(last.pre, last.doc_id))
    /\ last.again => (last.removed = 0 /\ Mem = last.pre)

C5_Witness ==
  /\ last.op = "remove" /\ last.again
  /\ last.doc_id = 1
  /\ Len(Mem.metadata) >= 2

\* C6 as stated: deleting a document id that no record carries returns a
\* removal count of 0 and leaves the store, in memory and on disk, as it was.
C6_Original ==
  (last.op = "delete" /\ last.doc_id # 0 /\ Carried(last.pre, last.doc_id) = {})
  => /\ last.chunks_removed = 0
     /\ disk = last.preDisk
     /\ Mem = last.pre

\* C6 amended: such a delete is answered 404 (not found or access denied)
\* with no removal count, and leaves the store, in memory and on disk, as
\* it was.
C6_NotFoundLeavesStore ==
  (last.op = "delete" /\ last.doc_id # 0 /\ Carried(last.pre, last.doc_id) = {})
  => /\ last.status = 404
     /\ last.chunks_removed = NoCount
     /\ disk = last.preDisk
     /\ Mem = last.pre

C6_Witness ==
  /\ last.op = "delete" /\ last.doc_id # 0
  /\ Carried(last.pre, last.doc_id) = {}
  /\ last.pre.metadata # <<>>

\* C7: when add_document reports failure because chunking or embedding gave
\* no usable chunk, the store's vectors and metadata are as before the call.
C7_FailureLeavesStore ==
  (last.op = "add_document" /\ ~last.ok /\ last.why \in {"nochunks", "embed"})
  => /\ Mem.vectors = last.pre.vectors
     /\ Mem.metadata = last.pre.metadata

\* what the providers were asked for during the last answer_question call
EmbedCalls == Len(last.answer.searches)
GenCalls == last.answer.genCalls
ValidQuestion(q) == QIsString[q] /\ Len(Strip(QChars[q])) >= MinQuestionLen

\* C8 as stated: with zero records in the store, answer_question returns the
\* "no documents" message for every question and calls no provider.
C8_Original ==
  (last.op = "answer" /\ last.pre.vectors = <<>> /\ QIsString[last.question])
  => /\ last.answer.kind = "No documents have been uploaded yet"
     /\ EmbedCalls = 0 /\ GenCalls = 0

\* C8 amended: with zero records in the store, answer_question calls no
\* provider for any question, and returns the "no documents" message for
\* every question string of at least 3 characters after trimming.
C8_EmptyStoreNoProvider ==
  (last.op = "answer" /\ last.pre.vectors = <<>>)
  => /\ EmbedCalls = 0 /\ GenCalls = 0
     /\ ValidQuestion(last.question)
          => last.answer.kind = "No documents have been uploaded yet"

C8_Witness ==
  /\ last.op = "answer" /\ last.pre.vectors = <<>>
  /\ ValidQuestion(last.question)
  /\ agent[1].documents # <<>>
  /\ last.gen = "ok" /\ last.emb = "ok"

\* C9: when the search at 0.1 and the retry at 0.0 both give nothing, or the
\* search fails, answer_question returns the "no relevant information"
\* message and does not call the generation provider.
C9_NoFallbackDocument ==
  (/\ last.op = "answer" /\ last.pre.vectors # <<>>
   /\ ValidQuestion(last.question)
   /\ last.answer.context.kind # "chunks")
  => /\ last.answer.kind = "I couldn't find relevant information"
     /\ GenCalls = 0

\* C10: answer_question never raises to its caller; a failure of the
\* embedding provider, of the search or of the generation provider ends in
\* a returned string.
C10_NeverRaises ==
  last.op = "answer" =>
    /\ ~last.answer.raised
    /\ last.answer.kind \in
         {"Please provide a valid question",
          "No documents have been uploaded yet",
          "I couldn't find relevant information",
          "answer", "Error generating answer", "Error answering question"}
    /\ (GenCalls = 1 /\ last.gen = "fail")
         => last.answer.kind = "Error generating answer"

C10_Witness ==
  /\ last.op = "answer"
  /\ last.emb = "raise" /\ last.gen = "fail"
  /\ EmbedCalls = 1 /\ GenCalls = 1
  /\ last.answer.kind = "Error generating answer"

\* C11: add_document called with a text of fewer than 10 characters after
\* trimming (the empty text included) returns False and changes nothing: the
\* agent's store, dimension and document list and the persisted file are
\* the same after the call as before it (no load, eviction, append or save).
C11_ShortTextRejected ==
  [][(/\ last'.op = "add_document" /\ last'.text \in AddTexts
      /\ StripLen[last'.text] < MinTextLen)
     => (/\ ~last'.ok
         /\ agent' = agent
         /\ disk' = disk
         /\ nextDoc' = nextDoc)]_vars

C11_Witness ==
  /\ last.op = "add_document" /\ last.text = "blank" /\ ~last.ok
  /\ disk.metadata # <<>>
  /\ agent[1].vectors = <<>>
  /\ agent[1].user_id = "u2"

\* the document ids present in a store, and the owner of a present document
Present(st) == {st.metadata[i].doc_id : i \in 1..Len(st.metadata)}
OwnerOf(st, doc_id) ==
  st.metadata[CHOOSE i \in Carried(st, doc_id) : TRUE].user_id

\* C12: a document present in the persisted store becomes absent only by a
\* delete request for its document id or by the eviction run in an ingestion
\* of its own owner; clearing, the cleanup of session files and requests of
\* other owners make no present document absent.
C12_AbsentOnlyByDeleteOrEviction ==
  \A doc_id \in Present(last.preDisk) \ Present(disk) :
    \/ last.op = "delete" /\ last.doc_id = doc_id
    \/ /\ last.op \in {"add_document", "upload"}
       /\ OwnerOf(last.preDisk, doc_id) = last.user

\* the chunk a record's metadata describes: chunk number chunk_index of the
\* document with the record's title
ChunkAt(md) ==
  ChunksOf[CHOOSE text \in AddTexts : Titles[text] = md.title][md.chunk_index + 1]
Aligned(st) ==
  /\ Len(st.vectors) = Len(st.metadata)
  /\ \A i \in 1..Len(st.metadata) :
       /\ i <= Len(st.vectors)
       /\ st.vectors[i] = Embedding[ChunkAt(st.metadata[i])]
       /\ st.metadata[i].text.of = ChunkAt(st.metadata[i])

\* C13: in every reachable state the vectors list and the metadata list, in
\* every agent's memory and in the persisted file, have the same length, and
\* the vector at each index is the embedding of the chunk that the metadata
\* at that index describes.
C13_ParallelArrays ==
  /\ Aligned(disk)
  /\ \A w \in Workers : Aligned(StoreOf(agent[w]))

C13_Witness ==
  /\ last.op = "upload" /\ last.nulls # {}
  /\ Carried(Mem, last.doc_id) # {}
  /\ DocIdsOf(last.pre.metadata, last.user) \ DocIdsOf(Mem.metadata, last.user) # {}
  /\ disk = Mem

\* C14: for every record that answer_question places in the context,
\* whether add_document or the multi-file upload appended it, the context
\* entry is the full text of the chunk that was embedded, labeled with the
\* title of its document, and not the 100-character preview.
C14_ContextFullText ==
  (last.op \in {"answer", "ask"} /\ last.answer.context.kind = "chunks")
  => LET hits == last.answer.context.hits
         chunks == last.answer.context.chunks
     IN /\ Len(chunks) = Len(hits)
        /\ \A i \in 1..Len(hits) :
             /\ chunks[i].title = hits[i].metadata.title
             /\ chunks[i].chunk_text = FullText(ChunkAt(hits[i].metadata))

\* the positions in all_chunks of the chunks of valid file number k
ChunkPositions(valid_files, k) ==
  LET RECURSIVE Before(_)
      Before(j) == IF j = 0 THEN 0
                   ELSE Len(ChunksOf[valid_files[j]]) + Before(j - 1)
  IN (Before(k - 1) + 1)..Before(k)

\* C15: in the multi-file upload a chunk whose embedding came back null is
\* not appended, the number of such chunks is reported to the caller, and a
\* file whose chunks all failed to embed is not reported as stored for Q&A.
C15_BatchFailuresReported ==
  (last.op = "upload" /\ last.minted > 0)
  => LET valid_files == ValidFiles(last.files)
         total == TotalChunks(last.files)
         appended == {i \in 1..Len(Mem.metadata) :
                        Mem.metadata[i].doc_id >= last.doc_id}
     IN /\ Cardinality(appended) = total - Cardinality(last.nulls)
        /\ last.nulls # {} => last.failed = Cardinality(last.nulls)
        /\ \A k \in 1..Len(valid_files) :
             ChunkPositions(valid_files, k) \subseteq last.nulls
             => ~last.qa_stored[k]

\* the operations that act on the store instance they have loaded
StoreOps == {"add_document", "upload", "delete", "remove", "clear"}

\* C16 as stated: once the dimension of a store instance is set, no later
\* operation on the instance (ingestion, batch ingestion, delete, eviction,
\* clear) changes it.
C16_Original ==
  (last.op \in StoreOps /\ last.pre.dimension # 0)
  => agent[last.worker].dimension = last.pre.dimension

\* C16 amended: once the dimension of a store instance is set (by an append
\* or by loading the file), ingestion, batch ingestion, delete and eviction
\* leave it as it is; clear resets it to unset.
C16_DimensionKeptExceptClear ==
  /\ (last.op \in StoreOps \ {"clear"} /\ last.pre.dimension # 0)
     => agent[last.worker].dimension = last.pre.dimension
  /\ last.op = "clear" => agent[last.worker].dimension = 0

C16_Witness ==
  /\ last.op = "upload" /\ last.pre.dimension # 0
  /\ last.nulls = {} /\ last.minted > 0
  /\ DocIdsOf(last.pre.metadata, last.user) \ DocIdsOf(Mem.metadata, last.user) # {}

\* C17: for every text T with len(T) <= chunk_size, _chunk_text(T,
\* chunk_size, overlap) returns the one-element list [T]: the whole text,
\* not stripped, without entering the loop.
C17_ShortTextOneChunk ==
  (chunker.pc = "done" /\ chunker.text.len <= chunker.chunk_size)
  => /\ chunker.chunks = <<[from |-> 0, to |-> chunker.text.len]>>
     /\ chunker.iters = 0

C17_Witness ==
  /\ chunker.pc = "done"
  /\ chunker.text.len = chunker.chunk_size
  /\ 0 \in chunker.text.blanks
  /\ chunker.overlap > 0

\* C18: the chunker returns the empty list for the empty text, and for a
\* text that is empty after whitespace normalization.
C18_EmptyTextNoChunks ==
  (chunker.pc = "done" /\ chunker.text.len = 0) => chunker.chunks = <<>>

\* C19: for every text and every chunk_size and overlap with
\* 0 <= overlap < chunk_size, each iteration of the loop moves start
\* strictly forward, also when the cut is moved back to a sentence-terminal
\* character.
C19_ForwardProgress ==
  [][(chunker.pc = "loop" /\ chunker'.pc \in {"loop", "done"})
     => chunker'.start > chunker.start]_vars

\* C20: with the default chunk_size 1000 and overlap 200 the chunker
\* terminates on every text and returns a finite list of chunks.
C20_DefaultTerminates == <>(chunker.pc = "done")

C20_Witness ==
  /\ chunker.pc = "done"
  /\ chunker.chunk_size = DefaultChunkSize /\ chunker.overlap = DefaultOverlap
  /\ Len(chunker.chunks) >= 3
  /\ chunker.chunks[1].to < DefaultChunkSize

\* the records of owner u whose cosine similarity to the query is at least
\* min_similarity, by position in the store
Qualifying(st, query, min_similarity, u) ==
  {i \in 1..Len(st.vectors) :
     /\ st.metadata[i].user_id = u
     /\ Cosine(st.vectors[i], Embedding[query]) >= min_similarity}

\* hit a ranks before the record at position i with score s
RanksBefore(a, s, i) ==
  a.similarity > s \/ (a.similarity = s /\ a.index < i)

ContextTitles(context) ==
  {context.chunks[i].title : i \in 1..Len(context.chunks)}

\* C22: when the matched chunks come from more than one distinct title, the
\* answer returned by answer_question ends with one source-attribution line
\* listing those titles; with a single title nothing is appended.
C22_SourceAttribution ==
  (/\ last.op \in {"answer", "ask"} /\ last.answer.context.kind = "chunks"
   /\ last.answer.kind = "answer")
  => LET titles == ContextTitles(last.answer.context)
     IN IF Cardinality(titles) > 1
        THEN last.answer.appended = <<[sources |-> titles]>>
        ELSE last.answer.appended = <<>>

\* the records appended by the last ingestion: those of the ids it minted
NewRecords(st) ==
  {i \in 1..Len(st.metadata) : st.metadata[i].doc_id >= last.doc_id}

\* the last operation mutated the store and reported success
MutatedOk ==
  \/ last.op \in {"add_document", "delete", "clear"} /\ last.ok
  \/ last.op = "upload" /\ last.ok /\ NewRecords(Mem) # {}

\* C23: when add_document, a multi-file upload that stored at least one
\* chunk, the delete endpoint or clear_documents returns success, the
\* persisted store equals the store in the agent's memory, the effect of an
\* eviction made by the operation included.
C23_SavedOnSuccess ==
  MutatedOk => /\ disk.vectors = Mem.vectors
               /\ disk.metadata = Mem.metadata
               /\ disk.dimension = Mem.dimension

C23_Witness ==
  /\ last.op = "add_document" /\ last.ok
  /\ DocIdsOf(last.pre.metadata, last.user) \ DocIdsOf(Mem.metadata, last.user) # {}
  /\ Cardinality(NewRecords(Mem)) = 2
  /\ disk = Mem /\ disk # last.preDisk

\* C24: in one answer_question call the search at min_similarity 0.0 is
\* issued if and only if the search at 0.1 returned an empty list; it is
\* issued at most once, after the first search, with the same query, top_k 3
\* and owner filter.
C24_RetryOnceWhenEmpty ==
  last.op = "answer"
  => LET searches == last.answer.searches
         relaxed == {k \in 1..Len(searches) :
                       searches[k].min_similarity = RelaxedThreshold}
     IN /\ Len(searches) <= 2
        /\ searches # <<>> =>
             /\ searches[1].min_similarity = PrimaryThreshold
             /\ searches[1].query = QText[last.question]
             /\ searches[1].top_k = 3
             /\ searches[1].user_id = last.user
        /\ relaxed # {} <=>
             (searches # <<>> /\ ~searches[1].raised
              /\ searches[1].results = <<>>)
        /\ relaxed \subseteq {2}
        /\ \A k \in relaxed :
             /\ searches[k].query = searches[1].query
             /\ searches[k].top_k = searches[1].top_k
             /\ searches[k].user_id = searches[1].user_id

C24_Witness ==
  /\ last.op = "answer" /\ last.emb = "ok"
  /\ Len(last.answer.searches) = 2
  /\ last.answer.searches[1].results = <<>>
  /\ last.answer.searches[2].results # <<>>
  /\ last.answer.context.kind = "chunks"

\* C25: after a successful add_document that produced n chunks the store
\* holds exactly n records with the new document id; they are the last n
\* records, in chunk order with chunk_index 0..n-1, all with the caller's
\* owner and title and one upload_time; no record that existed before the
\* call, in memory or in the file, carries the id.
C25_NewDocumentRecords ==
  (last.op = "add_document" /\ last.ok)
  => LET chunks == ChunksOf[last.text]
         n == Len(chunks)
         size == Len(Mem.metadata)
     IN /\ n > 0 /\ size >= n /\ Len(Mem.vectors) = size
        /\ Carried(Mem, last.doc_id) = (size - n + 1)..size
        /\ \A k \in 1..n :
             LET md == Mem.metadata[size - n + k]
             IN /\ md.chunk_index = k - 1
                /\ md.user_id = last.user
                /\ md.title = Titles[last.text]
                /\ md.upload_time = Mem.metadata[size].upload_time
                /\ md.text.of = chunks[k]
                /\ Mem.vectors[size - n + k] = Embedding[chunks[k]]
        /\ Carried(last.pre, last.doc_id) = {}
        /\ Carried(last.preDisk, last.doc_id) = {}

C25_Witness ==
  /\ last.op = "add_document" /\ last.ok
  /\ last.text = "two" /\ last.user = "u2"
  /\ Len(Mem.metadata) > 2
  /\ Len(last.pre.metadata) = Len(Mem.metadata) - 2

\* the owners of the records that carry doc_id
OwnersOf(st, doc_id) == {st.metadata[i].user_id : i \in Carried(st, doc_id)}

\* C26: the delete endpoint removes records only when at least one record
\* with the requested doc_id has the requester's user id; a request naming a
\* document that belongs only to another owner is answered 404 (not found or
\* access denied) and leaves the store's records and the file unchanged.
C26_DeleteOnlyOwn ==
  last.op = "delete"
  => /\ (Mem # last.pre \/ disk # last.preDisk)
          => last.user \in OwnersOf(last.pre, last.doc_id)
     /\ (OwnersOf(last.pre, last.doc_id) # {}
         /\ last.user \notin OwnersOf(last.pre, last.doc_id))
          => /\ last.status = 404
             /\ Mem = last.pre
             /\ disk = last.preDisk

C26_Witness ==
  /\ last.op = "delete" /\ last.user = "u2"
  /\ OwnersOf(last.pre, last.doc_id) = {"u1"}
  /\ Cardinality(Carried(disk, last.doc_id)) = 2

\* the requests an owner makes on the store
OwnerRequests ==
  {"add_document", "upload", "delete", "clear", "answer", "ask"}

\* C27: in a store shared by several owners no request of owner A
\* (ingestion, delete, clear, question) removes or alters a record of another
\* owner B: B's persisted records are the same before and after the request.
C27_OthersUntouched ==
  last.op \in OwnerRequests
  => OthersRecords(disk, last.user) = OthersRecords(last.preDisk, last.user)

\* answer_question was called by the last request
Called == last.answer.kind # ""
HasRecords(st, u) == \E i \in 1..Len(st.metadata) : st.metadata[i].user_id = u

\* C28 as stated: the ask-question endpoint calls answer_question only if
\* the requesting user has at least one record in the store; otherwise it
\* answers with the "No documents available" error.
C28_Original ==
  last.op = "ask"
  => /\ Called => HasRecords(last.preDisk, last.user)
     /\ ~HasRecords(last.preDisk, last.user)
          => (~Called /\ last.why = "No documents available")

\* C28 amended: the endpoint calls answer_question, and so the providers,
\* only if the requesting user has at least one record in the store after
\* the reload from disk; a request with a non-empty question string of a
\* user without records is answered 400 "No documents available", also when
\* the store holds records of other owners; a request with an empty
\* question is answered 400 "No question provided" whatever the store holds.
C28_AskOnlyWithOwnRecords ==
  last.op = "ask"
  => /\ Called => (HasRecords(last.preDisk, last.user) /\ last.status = 200)
     /\ ~Called => (EmbedCalls = 0 /\ GenCalls = 0)
     /\ (/\ QIsString[last.question] /\ QChars[last.question] # <<>>
         /\ ~HasRecords(last.preDisk, last.user))
          => /\ ~Called
             /\ last.status = 400
             /\ last.why = "No documents available"
     /\ (QIsString[last.question] /\ QChars[last.question] = <<>>)
          => /\ ~Called
             /\ last.status = 400
             /\ last.why = "No question provided"

C28_Witness ==
  /\ last.op = "ask" /\ last.user = "u2"
  /\ last.why = "No documents available"
  /\ last.preDisk.metadata # <<>>
  /\ ~HasRecords(last.preDisk, "u2")
  /\ agent[1].metadata = last.preDisk.metadata

\* the positions of the text that lie in at least one chunk
InChunks(chunks) ==
  UNION {chunks[k].from..(chunks[k].to - 1) : k \in 1..Len(chunks)}

\* C29: for a text longer than chunk_size and 0 <= overlap < chunk_size -
\* 100, every chunk is a contiguous span of the text of at most chunk_size
\* characters, the window of each iteration after the first starts exactly
\* overlap characters before the end (the cut) of the previous one, every
\* non-whitespace character before the last cut lies in a chunk, and the
\* loop ends only when the cut has reached the end of the text.
C29_ChunksCoverText ==
  (/\ chunker.pc \in {"loop", "done"} /\ chunker.iters > 0
   /\ chunker.text.len > chunker.chunk_size
   /\ chunker.overlap < chunker.chunk_size - SentenceLookback)
  => LET T == chunker.text
         chunks == chunker.chunks
     IN /\ \A k \in 1..Len(chunks) :
             /\ 0 <= chunks[k].from /\ chunks[k].from < chunks[k].to
             /\ chunks[k].to <= T.len
             /\ chunks[k].to - chunks[k].from <= chunker.chunk_size
        /\ chunker.start = chunker.end - chunker.overlap
        /\ chunker.start > 0
        /\ {p \in NonBlank(T) : p < chunker.end} \subseteq InChunks(chunks)
        /\ chunker.pc = "done" =>
             /\ chunker.end >= T.len
             /\ NonBlank(T) \subseteq InChunks(chunks)

C29_Witness ==
  /\ chunker.pc = "done" /\ chunker.iters >= 3
  /\ chunker.text.len > chunker.chunk_size
  /\ chunker.overlap = chunker.chunk_size - SentenceLookback - 1
  /\ chunker.overlap > 0
  /\ Len(chunker.chunks) >= 3
  /\ chunker.chunks[1].to = chunker.chunk_size - SentenceLookback + 1
  /\ chunker.text.blanks # {}

\* the ids in a store are unique: no two records carry the same vec_ id
UniqueIds(st) ==
  \A i, j \in 1..Len(st.metadata) :
    (i # j /\ st.metadata[i].id # NoId) => st.metadata[i].id # st.metadata[j].id

\* C30: the record ids assigned by batch ingestion ('vec_' followed by the
\* store length at append time) are unique within the store in every
\* reachable state, also after documents were deleted or evicted and further
\* documents were ingested.
C30_UniqueVectorIds ==
  /\ UniqueIds(disk)
  /\ \A w \in Workers : UniqueIds(StoreOf(agent[w]))
====
